---- MODULE Spec2Model ----
(***************************************************************************)
(* A model of SceneManager (Source/SceneManager.cpp): the texture table,   *)
(* the material list, the OpenGL texture objects they own, and the draw    *)
(* script of RenderScene.                                                  *)
(*                                                                         *)
(* Floats are fixed-point integers: the scene's lengths, colours and       *)
(* material fields in units of 1/1000, sines and cosines in units of       *)
(* 1/TrigScale.  rotate is linear in the position, so its caller fixes the *)
(* unit of the position it passes.  Angles are whole degrees, as every     *)
(* angle literal of the source is.                                         *)
(*                                                                         *)
(* The call sequence is the one a client of the class can produce: the     *)
(* constructor, then PrepareScene, RenderScene and the lookups in any      *)
(* order, then the destructor.  PrepareScene runs step by step (pc); the   *)
(* class is single-threaded, so no other operation starts while it runs.   *)
(***************************************************************************)
EXTENDS Integers, Sequences, FiniteSets, TLC

\* ------------------------------------------------------------------ bounds
\* PrepareScene is called at most MaxPrepares times in a behaviour.
MaxPrepares == 5
\* Frames counted since the latest PrepareScene (the counter saturates).
MaxFrames == 2
\* rotate is applied at most MaxRotations times to a position.
MaxRotations == 2

\* --------------------------------------------------------------- constants
\* m_textureIDs has 16 elements (the constructor's loop bound).
TextureCapacity == 16
\* The number of notebook rings (loop bound and array sizes).
RingCount == 17

\* Sines and cosines are kept to six decimals: single precision tells the cosine
\* of `90 * 3.14159 / 180.0` (1.27e-6) from 0.  Limb is the base the products
\* are computed in.
Limb == 1000
TrigScale == Limb * Limb

\* ---------------------------------------------------------------- helpers
Min(S) == CHOOSE x \in S : \A y \in S : x <= y

\* ------------------------------------------------------------------ names
\* The image files LoadSceneTextures reads, in call order, with their tags.
SceneTextures ==
  << [file |-> "../../Utilities/textures/pages.jpg",  tag |-> "pages"],
     [file |-> "../../Utilities/textures/page.jpg",   tag |-> "page"],
     [file |-> "../../Utilities/textures/rubiks.jpg", tag |-> "rubiks"],
     [file |-> "../../Utilities/textures/shadow.jpg", tag |-> "shadow"] >>

SceneFiles == {SceneTextures[i].file : i \in DOMAIN SceneTextures}

\* The tag the constructor stores in every unused element.
PlaceholderTag == "/0"

\* Tags a lookup is asked for: the scene's, the placeholder, and an unknown one.
LookupTags == {SceneTextures[i].tag : i \in DOMAIN SceneTextures}
                \cup {PlaceholderTag, "marble"}

\* What stbi_load finds in a file: 0 stands for a NULL result (the file is
\* missing or is no image), another number is the channel count.
ImageKinds == {0, 1, 3, 4}

\* ------------------------------------------------------------------ state
VARIABLES
  pc,               \* where the single thread is
  files,            \* the file system: what stbi_load gets from each image file
  m_pShaderManager, \* "valid" or "NULL"
  m_basicMeshes,    \* the set of meshes loaded into the ShapeMeshes object
  m_textureIDs,     \* the array: 0..15 -> [tag, ID]
  pastEnd,          \* what was written behind the array, element 16 onwards
  m_loadedTextures, \* the counter
  m_objectMaterials,\* the vector of materials
  glTextures,       \* texture names generated and not deleted
  glActive,         \* the active texture unit
  glUnits,          \* unit -> texture bound to GL_TEXTURE_2D on it (0: none)
  uniforms,         \* the light uniforms the shader holds
  prepares,         \* PrepareScene calls so far
  frames,           \* RenderScene calls since the latest PrepareScene
  frame1,           \* the calls of the first frame since the latest PrepareScene
  frameN,           \* the calls of the latest frame
  registered,       \* history: the texture names CreateGLTexture registered
  last              \* the latest call: [op, arg, ret]

vars == << pc, files, m_pShaderManager, m_basicMeshes, m_textureIDs, pastEnd,
           m_loadedTextures, m_objectMaterials, glTextures, glActive, glUnits,
           uniforms, prepares, frames, frame1, frameN, registered, last >>

\* The texture units the model tracks (one per element BindGLTextures visits).
Units == 0 .. (4 * MaxPrepares + TextureCapacity)

\* glGenTextures(1, &id): a name not in use; GL hands out the lowest one.
GenName(inUse) == Min((1 .. (Cardinality(inUse) + 1)) \ inUse)

\* ------------------------------------------------------------- materials
\* OBJECT_MATERIAL: tag, ambientColor, ambientStrength, diffuseColor,
\* specularColor, shininess (units of 1/1000).
defaultMaterial ==
  [tag |-> "default_material", ambientColor |-> <<800, 800, 800>>,
   ambientStrength |-> 100500, diffuseColor |-> <<700, 700, 800>>,
   specularColor |-> <<300, 500, 800>>, shininess |-> 100500]

tableMaterial ==
  [tag |-> "table_material", ambientColor |-> <<1000, 1000, 1000>>,
   ambientStrength |-> 1000, diffuseColor |-> <<800, 700, 800>>,
   specularColor |-> <<50, 50, 50>>, shininess |-> 1100]

paperMaterial ==
  [tag |-> "paper_material", ambientColor |-> <<990, 990, 990>>,
   ambientStrength |-> 990, diffuseColor |-> <<990, 990, 990>>,
   specularColor |-> <<100, 100, 100>>, shininess |-> 100000]

wireMaterial ==
  [tag |-> "wire_material", ambientColor |-> <<800, 800, 800>>,
   ambientStrength |-> 100500, diffuseColor |-> <<700, 700, 800>>,
   specularColor |-> <<300, 500, 800>>, shininess |-> 100500]

rubiksMaterial ==
  [tag |-> "rubiks_material", ambientColor |-> <<500, 500, 500>>,
   ambientStrength |-> 1000, diffuseColor |-> <<900, 500, 500>>,
   specularColor |-> <<100, 100, 900>>, shininess |-> 1000]

\* The materials DefineObjectMaterials pushes, in push order.
SceneMaterials ==
  << defaultMaterial, tableMaterial, paperMaterial, wireMaterial, rubiksMaterial >>

MaterialTags == {SceneMaterials[i].tag : i \in DOMAIN SceneMaterials}
                  \cup {"glass_material"}

\* The five fields FindMaterial copies (the tag is not copied).
Fields(m) ==
  [ambientColor |-> m.ambientColor, ambientStrength |-> m.ambientStrength,
   diffuseColor |-> m.diffuseColor, specularColor |-> m.specularColor,
   shininess |-> m.shininess]

\* `OBJECT_MATERIAL material;` is declared without an initialiser: its fields
\* hold whatever the stack held.  Two such contents stand for all of them.
Indeterminate ==
  { [ambientColor |-> <<0, 0, 0>>, ambientStrength |-> 0,
     diffuseColor |-> <<0, 0, 0>>, specularColor |-> <<0, 0, 0>>, shininess |-> 0],
    [ambientColor |-> <<-7, 13, 999>>, ambientStrength |-> -1,
     diffuseColor |-> <<1, 2, 3>>, specularColor |-> <<4, 5, 6>>, shininess |-> 77] }

\* ------------------------------------------------------------------- Init
\* What the constructor leaves in the object and in the GL context: every
\* element {"/0", -1}, no texture loaded, no material, an empty ShapeMeshes.
Constructed ==
  /\ pc = "idle"
  /\ m_pShaderManager = "valid"
  /\ m_basicMeshes = {}
  /\ m_textureIDs = [i \in 0 .. (TextureCapacity - 1) |->
                       [tag |-> PlaceholderTag, ID |-> -1]]
  /\ pastEnd = << >>
  /\ m_loadedTextures = 0
  /\ m_objectMaterials = << >>
  /\ glTextures = {}
  /\ glActive = 0
  /\ glUnits = [u \in Units |-> 0]
  /\ uniforms = [bUseLighting |-> FALSE, lightSources |-> << >>]
  /\ prepares = 0
  /\ frames = 0
  /\ frame1 = << >>
  /\ frameN = << >>
  /\ registered = {}

\* The state after construction.  The file system is any.
Init ==
  /\ Constructed
  /\ files \in [SceneFiles -> ImageKinds]
  /\ last = [op |-> "SceneManager", arg |-> "", ret |-> << >>]

\* ------------------------------------------------------- the texture table
\* m_textureIDs[i] as the program reads it: an index of 16 or more is behind
\* the array, where the program finds what it wrote there.
Element(i) ==
  IF i < TextureCapacity THEN m_textureIDs[i]
                         ELSE pastEnd[i - TextureCapacity + 1]

\* An access to element i is outside the array.
OutOfBounds(i) == i >= TextureCapacity

\* What an out-of-bounds access can do: go through, or end the process.
Outcomes(ub) == IF ub THEN {"through", "crash"} ELSE {"through"}

\* FindTextureID without the bFound stop: the scan runs on and a later match
\* overwrites an earlier one.
RECURSIVE FindTextureIDNoStopFrom(_, _)
FindTextureIDNoStopFrom(tag, index) ==
  IF index < m_loadedTextures
    THEN LET later == FindTextureIDNoStopFrom(tag, index + 1)
         IN  IF Element(index).tag = tag /\ later = -1
               THEN Element(index).ID
               ELSE later
    ELSE -1

RECURSIVE FindTextureIDFrom(_, _)
FindTextureIDFrom(tag, index) ==
  IF index < m_loadedTextures
    THEN IF Element(index).tag = tag
           THEN Element(index).ID
           ELSE FindTextureIDFrom(tag, index + 1)
    ELSE -1

FindTextureID(tag) == FindTextureIDFrom(tag, 0)

\* FindTextureSlot scanning the whole array instead of the loaded elements.
RECURSIVE FindTextureSlotWholeArrayFrom(_, _)
FindTextureSlotWholeArrayFrom(tag, index) ==
  IF index < TextureCapacity
    THEN IF Element(index).tag = tag
           THEN index
           ELSE FindTextureSlotWholeArrayFrom(tag, index + 1)
    ELSE -1

RECURSIVE FindTextureSlotFrom(_, _)
FindTextureSlotFrom(tag, index) ==
  IF index < m_loadedTextures
    THEN IF Element(index).tag = tag
           THEN index
           ELSE FindTextureSlotFrom(tag, index + 1)
    ELSE -1

FindTextureSlot(tag) == FindTextureSlotFrom(tag, 0)

\* The scan for tag reads an element behind the array.
ScanOutOfBounds(tag) ==
  LET slot == FindTextureSlot(tag)
  IN  IF slot = -1 THEN m_loadedTextures > TextureCapacity
                   ELSE OutOfBounds(slot)

RECURSIVE FindMaterialFrom(_, _, _)
FindMaterialFrom(tag, material, index) ==
  IF index < Len(m_objectMaterials)
    THEN IF m_objectMaterials[index + 1].tag = tag
           THEN Fields(m_objectMaterials[index + 1])
           ELSE FindMaterialFrom(tag, material, index + 1)
    ELSE material

\* FindMaterial(tag, material&): the return value and the out-parameter.
FindMaterial(tag, material) ==
  IF Len(m_objectMaterials) = 0
    THEN [ret |-> FALSE, material |-> material]
    ELSE [ret |-> TRUE, material |-> FindMaterialFrom(tag, material, 0)]

\* ------------------------------------------------------------ PrepareScene
\* The positions of the thread inside LoadSceneTextures: one per CreateGLTexture
\* call, then BindGLTextures.
LoadPc == << "load1", "load2", "load3", "load4", "bind" >>

\* PrepareScene is entered (its first statement is the LoadSceneTextures call).
PrepareScene ==
  /\ pc = "idle"
  /\ prepares < MaxPrepares
  /\ pc' = LoadPc[1]
  /\ prepares' = prepares + 1
  /\ frames' = 0
  /\ frame1' = << >>
  /\ frameN' = << >>
  /\ last' = [op |-> "PrepareScene", arg |-> "", ret |-> << >>]
  /\ UNCHANGED << files, m_pShaderManager, m_basicMeshes, m_textureIDs, pastEnd,
                  m_loadedTextures, m_objectMaterials, glTextures, glActive,
                  glUnits, uniforms, registered >>

\* CreateGLTexture taking every decoded image for an uploadable one.
ChannelsAnyImage(colorChannels) == colorChannels > 0

\* The channel counts CreateGLTexture uploads (GL_RGB8 for 3, GL_RGBA8 for 4).
ChannelsSupported(colorChannels) == colorChannels \in {3, 4}

\* A registration that reuses the element of a tag already in the table.
RegisterTextureByTag(tag, textureID) ==
  LET same == {i \in 0 .. (TextureCapacity - 1) :
                 i < m_loadedTextures /\ m_textureIDs[i].tag = tag}
  IN  IF same # {}
        THEN [table  |-> [m_textureIDs EXCEPT ![Min(same)] =
                            [tag |-> tag, ID |-> textureID]],
              past   |-> pastEnd,
              loaded |-> m_loadedTextures]
        ELSE [table  |-> IF m_loadedTextures >= TextureCapacity
                           THEN m_textureIDs
                           ELSE [m_textureIDs EXCEPT ![m_loadedTextures] =
                                   [tag |-> tag, ID |-> textureID]],
              past   |-> IF m_loadedTextures >= TextureCapacity
                           THEN Append(pastEnd, [tag |-> tag, ID |-> textureID])
                           ELSE pastEnd,
              loaded |-> m_loadedTextures + 1]

\* The registration: element m_loadedTextures gets {tag, ID}, the counter is
\* incremented.  There is no check of the index against the array's size.
RegisterTexture(tag, textureID) ==
  [table  |-> IF OutOfBounds(m_loadedTextures)
                THEN m_textureIDs
                ELSE [m_textureIDs EXCEPT ![m_loadedTextures] =
                        [tag |-> tag, ID |-> textureID]],
   past   |-> IF OutOfBounds(m_loadedTextures)
                THEN Append(pastEnd, [tag |-> tag, ID |-> textureID])
                ELSE pastEnd,
   loaded |-> m_loadedTextures + 1]

\* LoadSceneTextures giving up at the first texture that does not load.
AfterLoadChecked(bReturn, next) == IF bReturn THEN next ELSE "crashed"

\* LoadSceneTextures stores each return value in bReturn and goes on to its
\* next statement whatever the value is.
AfterLoad(bReturn, next) == next

\* The i-th CreateGLTexture call of LoadSceneTextures.
CreateGLTexture(i) ==
  /\ pc = LoadPc[i]
  /\ LET filename      == SceneTextures[i].file
         tag           == SceneTextures[i].tag
         colorChannels == files[filename]
         image         == colorChannels # 0
         textureID     == GenName(glTextures)
         reg           == RegisterTexture(tag, textureID)
     IN  IF ~image
           THEN \* "Could not load image"
                /\ pc' = AfterLoad(FALSE, LoadPc[i + 1])
                /\ last' = [op |-> "CreateGLTexture", arg |-> tag, ret |-> FALSE]
                /\ UNCHANGED << m_textureIDs, pastEnd, m_loadedTextures,
                                glTextures, glUnits, registered >>
           ELSE IF ~ChannelsSupported(colorChannels)
             THEN \* glGenTextures, glBindTexture, then the early return
                  /\ pc' = AfterLoad(FALSE, LoadPc[i + 1])
                  /\ glTextures' = glTextures \cup {textureID}
                  /\ glUnits' = [glUnits EXCEPT ![glActive] = textureID]
                  /\ last' = [op |-> "CreateGLTexture", arg |-> tag, ret |-> FALSE]
                  /\ UNCHANGED << m_textureIDs, pastEnd, m_loadedTextures, registered >>
             ELSE \E outcome \in Outcomes(OutOfBounds(m_loadedTextures)) :
                  /\ glTextures' = glTextures \cup {textureID}
                  /\ glUnits' = [glUnits EXCEPT ![glActive] = 0]
                  /\ IF outcome = "crash"
                       THEN /\ pc' = "crashed"
                            /\ last' = [op |-> "crash", arg |-> tag, ret |-> << >>]
                            /\ UNCHANGED << m_textureIDs, pastEnd,
                                            m_loadedTextures, registered >>
                       ELSE /\ pc' = AfterLoad(TRUE, LoadPc[i + 1])
                            /\ m_textureIDs' = reg.table
                            /\ pastEnd' = reg.past
                            /\ m_loadedTextures' = reg.loaded
                            /\ registered' = registered \cup {textureID}
                            /\ last' = [op |-> "CreateGLTexture", arg |-> tag,
                                        ret |-> TRUE]
  /\ UNCHANGED << files, m_pShaderManager, m_basicMeshes, m_objectMaterials,
                  glActive, uniforms, prepares, frames, frame1, frameN >>

\* BindGLTextures: unit i gets the texture of element i, for i below the counter.
BindGLTextures ==
  /\ pc = "bind"
  /\ \E outcome \in Outcomes(m_loadedTextures > TextureCapacity) :
       IF outcome = "crash"
         THEN /\ pc' = "crashed"
              /\ last' = [op |-> "crash", arg |-> "", ret |-> << >>]
              /\ UNCHANGED << glActive, glUnits >>
         ELSE /\ pc' = "materials"
              /\ glUnits' = [u \in Units |->
                               IF u < m_loadedTextures THEN Element(u).ID
                                                       ELSE glUnits[u]]
              /\ glActive' = IF m_loadedTextures > 0 THEN m_loadedTextures - 1
                                                     ELSE glActive
              /\ last' = [op |-> "BindGLTextures", arg |-> "", ret |-> << >>]
  /\ UNCHANGED << files, m_pShaderManager, m_basicMeshes, m_textureIDs, pastEnd,
                  m_loadedTextures, m_objectMaterials, glTextures, uniforms,
                  prepares, frames, frame1, frameN, registered >>

\* DefineObjectMaterials: five push_back calls.
DefineObjectMaterials ==
  /\ pc = "materials"
  /\ pc' = "lights"
  /\ m_objectMaterials' = m_objectMaterials \o SceneMaterials
  /\ last' = [op |-> "DefineObjectMaterials", arg |-> "", ret |-> << >>]
  /\ UNCHANGED << files, m_pShaderManager, m_basicMeshes, m_textureIDs, pastEnd,
                  m_loadedTextures, glTextures, glActive, glUnits, uniforms,
                  prepares, frames, frame1, frameN, registered >>

\* SetupSceneLights: bUseLighting and the five fields of lightSources[0].
SetupSceneLights ==
  /\ pc = "lights"
  /\ pc' = "meshes"
  /\ uniforms' =
       [bUseLighting |-> TRUE,
        lightSources |-> << [position |-> <<5000, 4000, -4000>>,
                             ambientColor |-> <<700, 700, 500>>,
                             diffuseColor |-> <<500, 500, 500>>,
                             specularColor |-> <<500, 500, 700>>,
                             specularIntensity |-> 30000] >>]
  /\ last' = [op |-> "SetupSceneLights", arg |-> "", ret |-> << >>]
  /\ UNCHANGED << files, m_pShaderManager, m_basicMeshes, m_textureIDs, pastEnd,
                  m_loadedTextures, m_objectMaterials, glTextures, glActive,
                  glUnits, prepares, frames, frame1, frameN, registered >>

\* PrepareScene without the LoadTorusMesh call.
SceneMeshesNoTorus ==
  {"Plane", "Cylinder", "TaperedCylinder", "Box", "Sphere", "Cone"}

\* The seven Load...Mesh calls that end PrepareScene.
SceneMeshes ==
  {"Plane", "Cylinder", "TaperedCylinder", "Box", "Sphere", "Cone", "Torus"}

LoadMeshes ==
  /\ pc = "meshes"
  /\ pc' = "idle"
  /\ m_basicMeshes' = m_basicMeshes \cup SceneMeshes
  /\ last' = [op |-> "LoadMeshes", arg |-> "", ret |-> << >>]
  /\ UNCHANGED << files, m_pShaderManager, m_textureIDs, pastEnd,
                  m_loadedTextures, m_objectMaterials, glTextures, glActive,
                  glUnits, uniforms, prepares, frames, frame1, frameN, registered >>

\* ---------------------------------------------------------------- lookups
\* A lookup called on its own, for any tag.
CallFindTextureID ==
  /\ pc = "idle"
  /\ \E tag \in LookupTags : \E outcome \in Outcomes(ScanOutOfBounds(tag)) :
       IF outcome = "crash"
         THEN /\ pc' = "crashed"
              /\ last' = [op |-> "crash", arg |-> tag, ret |-> << >>]
         ELSE /\ pc' = pc
              /\ last' = [op |-> "FindTextureID", arg |-> tag,
                          ret |-> FindTextureID(tag)]
  /\ UNCHANGED << files, m_pShaderManager, m_basicMeshes, m_textureIDs, pastEnd,
                  m_loadedTextures, m_objectMaterials, glTextures, glActive,
                  glUnits, uniforms, prepares, frames, frame1, frameN, registered >>

CallFindTextureSlot ==
  /\ pc = "idle"
  /\ \E tag \in LookupTags : \E outcome \in Outcomes(ScanOutOfBounds(tag)) :
       IF outcome = "crash"
         THEN /\ pc' = "crashed"
              /\ last' = [op |-> "crash", arg |-> tag, ret |-> << >>]
         ELSE /\ pc' = pc
              /\ last' = [op |-> "FindTextureSlot", arg |-> tag,
                          ret |-> FindTextureSlot(tag)]
  /\ UNCHANGED << files, m_pShaderManager, m_basicMeshes, m_textureIDs, pastEnd,
                  m_loadedTextures, m_objectMaterials, glTextures, glActive,
                  glUnits, uniforms, prepares, frames, frame1, frameN, registered >>

\* FindMaterial called with a material object the caller did not initialise.
CallFindMaterial ==
  /\ pc = "idle"
  /\ \E tag \in MaterialTags : \E material \in Indeterminate :
       last' = [op |-> "FindMaterial", arg |-> tag,
                ret |-> FindMaterial(tag, material)]
  /\ UNCHANGED << pc, files, m_pShaderManager, m_basicMeshes, m_textureIDs,
                  pastEnd, m_loadedTextures, m_objectMaterials, glTextures,
                  glActive, glUnits, uniforms, prepares, frames, frame1, frameN,
                  registered >>

\* ------------------------------------------------------------- destructor
\* DestroyGLTextures calls glGenTextures on the ID of every element below the
\* counter: each call generates a name and stores it over the ID.
RECURSIVE DestroyFrom(_, _)
DestroyFrom(i, st) ==
  IF i < m_loadedTextures
    THEN LET name == GenName(st.gl)
         IN  DestroyFrom(i + 1,
               [gl    |-> st.gl \cup {name},
                table |-> IF OutOfBounds(i) THEN st.table
                          ELSE [st.table EXCEPT ![i].ID = name],
                past  |-> IF OutOfBounds(i)
                            THEN [st.past EXCEPT ![i - TextureCapacity + 1].ID = name]
                            ELSE st.past])
    ELSE st

DestroyGLTextures ==
  DestroyFrom(0, [gl |-> glTextures, table |-> m_textureIDs, past |-> pastEnd])

\* ~SceneManager: the pointers are cleared, the meshes deleted, then
\* DestroyGLTextures runs.
Destructor ==
  /\ pc = "idle"
  /\ m_pShaderManager' = "NULL"
  /\ m_basicMeshes' = {}
  /\ \E outcome \in Outcomes(m_loadedTextures > TextureCapacity) :
       IF outcome = "crash"
         THEN /\ pc' = "crashed"
              /\ last' = [op |-> "crash", arg |-> "", ret |-> << >>]
              /\ UNCHANGED << m_textureIDs, pastEnd, glTextures >>
         ELSE /\ pc' = "destroyed"
              /\ glTextures' = DestroyGLTextures.gl
              /\ m_textureIDs' = DestroyGLTextures.table
              /\ pastEnd' = DestroyGLTextures.past
              /\ last' = [op |-> "~SceneManager", arg |-> "", ret |-> << >>]
  /\ UNCHANGED << files, m_loadedTextures, m_objectMaterials, glActive, glUnits,
                  uniforms, prepares, frames, frame1, frameN, registered >>

\* ---------------------------------------------------------------- rotate
\* cos and sin of the float `deg * 3.14159 / 180.0`, in units of 1/TrigScale,
\* for the angles the scene uses and the quarter turns.  3.14159 is less than
\* pi, so the cosine of a quarter turn is not 0 and the sine of a half turn is
\* not 0.  cos(-y) and sin(-y) are the library's: even and odd.
CosDeg(deg) ==
  LET a == IF deg < 0 THEN -deg ELSE deg
  IN  CASE a = 0   -> TrigScale
        [] a = 5   -> 996195
        [] a = 20  -> 939693
        [] a = 50  -> 642788
        [] a = 90  -> 1
        [] a = 180 -> -TrigScale
        [] a = 245 -> -422622
        [] a = 270 -> -4

SinDeg(deg) ==
  LET a == IF deg < 0 THEN -deg ELSE deg
      s == CASE a = 0   -> 0
             [] a = 5   -> 87156
             [] a = 20  -> 342020
             [] a = 50  -> 766044
             [] a = 90  -> TrigScale
             [] a = 180 -> 3
             [] a = 245 -> -906306
             [] a = 270 -> -TrigScale
  IN  IF deg < 0 THEN -s ELSE s

\* The float product of a length p and a sine or cosine t: p * t / TrigScale
\* rounded to the length's unit.  t is split in two limbs so that no
\* intermediate value leaves 32 bits (for lengths up to 2 * TrigScale).
MulTrig(p, t) ==
  LET th == t \div Limb
      tl == t % Limb
  IN  (p * th + (p * tl + TrigScale \div 2) \div Limb) \div Limb

\* ucRot with the two results stored in each other's place.
ucRotSwapped(hUc, vUc, hP, vP) ==
  << MulTrig(hP, vUc) + MulTrig(vP, hUc), MulTrig(vP, -vUc) + MulTrig(hP, hUc) >>

\* ucRot turning the other way: the sign on the wrong product.
ucRotClockwise(hUc, vUc, hP, vP) ==
  << MulTrig(vP, vUc) + MulTrig(hP, hUc), MulTrig(hP, -vUc) + MulTrig(vP, hUc) >>

\* ucRot(hUc, vUc, &hP, &vP): the new << hP, vP >>.
ucRot(hUc, vUc, hP, vP) ==
  << MulTrig(vP, -vUc) + MulTrig(hP, hUc), MulTrig(hP, vUc) + MulTrig(vP, hUc) >>

\* rotate with the three planar rotations in the order X, Y, Z.
rotateXFirst(pos, x, y, z) ==
  LET zh == CosDeg(z)
      zv == SinDeg(z)
      yh == CosDeg(-y)
      yv == SinDeg(-y)
      xh == CosDeg(x)
      xv == SinDeg(x)
      y1 == ucRot(xh, xv, pos[2], pos[3])[1]
      z1 == ucRot(xh, xv, pos[2], pos[3])[2]
      x2 == ucRot(yh, yv, pos[1], z1)[1]
      z2 == ucRot(yh, yv, pos[1], z1)[2]
  IN  << ucRot(zh, zv, x2, y1)[1], ucRot(zh, zv, x2, y1)[2], z2 >>

\* rotate without the negation of the y angle.
rotateYNotNegated(pos, x, y, z) ==
  LET zh == CosDeg(z)
      zv == SinDeg(z)
      yh == CosDeg(y)
      yv == SinDeg(y)
      xh == CosDeg(x)
      xv == SinDeg(x)
      x1 == ucRot(zh, zv, pos[1], pos[2])[1]
      y1 == ucRot(zh, zv, pos[1], pos[2])[2]
      x2 == ucRot(yh, yv, x1, pos[3])[1]
      z2 == ucRot(yh, yv, x1, pos[3])[2]
  IN  << x2, ucRot(xh, xv, y1, z2)[1], ucRot(xh, xv, y1, z2)[2] >>

\* rotate(&xPos, &yPos, &zPos, x, y, z): the new << xPos, yPos, zPos >>.
\* Each ucRot call works on the coordinates the calls before it left.
rotate(pos, x, y, z) ==
  LET zh == CosDeg(z)
      zv == SinDeg(z)
      yh == CosDeg(-y)
      yv == SinDeg(-y)
      xh == CosDeg(x)
      xv == SinDeg(x)
      \* ucRot(zh, zv, xPos, yPos)
      x1 == ucRot(zh, zv, pos[1], pos[2])[1]
      y1 == ucRot(zh, zv, pos[1], pos[2])[2]
      \* ucRot(yh, yv, xPos, zPos)
      x2 == ucRot(yh, yv, x1, pos[3])[1]
      z2 == ucRot(yh, yv, x1, pos[3])[2]
      \* ucRot(xh, xv, yPos, zPos)
  IN  << x2, ucRot(xh, xv, y1, z2)[1], ucRot(xh, xv, y1, z2)[2] >>

\* ------------------------------------------------------ the shader facade
\* A frame is the sequence of the uniform assignments and draw calls made.
Uniform(name, value) == [call |-> "uniform", name |-> name, value |-> value]
Draw(mesh) == [call |-> "draw", name |-> mesh, value |-> << >>]

\* cos and sin of glm::radians(deg), in units of 1/TrigScale, for the angles
\* SetTransformations is given and the quarter turns.  glm::radians multiplies
\* by pi / 180 in single precision: the cosine of a quarter turn is 0 to six
\* decimals.
GlmCos(deg) ==
  LET a == IF deg < 0 THEN -deg ELSE deg
  IN  CASE a = 0   -> TrigScale
        [] a = 4   -> 997564
        [] a = 5   -> 996195
        [] a = 20  -> 939693
        [] a = 50  -> 642788
        [] a = 90  -> 0
        [] a = 135 -> -707107
        [] a = 180 -> -TrigScale
        [] a = 245 -> -422618
        [] a = 270 -> 0

GlmSin(deg) ==
  LET a == IF deg < 0 THEN -deg ELSE deg
      s == CASE a = 0   -> 0
             [] a = 4   -> 69756
             [] a = 5   -> 87156
             [] a = 20  -> 342020
             [] a = 50  -> 766044
             [] a = 90  -> TrigScale
             [] a = 135 -> 707107
             [] a = 180 -> 0
             [] a = 245 -> -906308
             [] a = 270 -> -TrigScale
  IN  IF deg < 0 THEN -s ELSE s

\* glm::rotate(angle, axis) for the three axes: the rows of the 3x3 block of
\* the matrix, entries in units of 1/TrigScale.
rotationX(deg) ==
  << << TrigScale, 0, 0 >>,
     << 0, GlmCos(deg), -GlmSin(deg) >>,
     << 0, GlmSin(deg), GlmCos(deg) >> >>

rotationY(deg) ==
  << << GlmCos(deg), 0, GlmSin(deg) >>,
     << 0, TrigScale, 0 >>,
     << -GlmSin(deg), 0, GlmCos(deg) >> >>

rotationZ(deg) ==
  << << GlmCos(deg), -GlmSin(deg), 0 >>,
     << GlmSin(deg), GlmCos(deg), 0 >>,
     << 0, 0, TrigScale >> >>

\* The matrix product A * B.
MatMul(A, B) ==
  [i \in 1 .. 3 |->
    [j \in 1 .. 3 |-> MulTrig(A[i][1], B[1][j]) + MulTrig(A[i][2], B[2][j])
                        + MulTrig(A[i][3], B[3][j])]]

\* The rotation factor of modelView: rotationX * rotationY * rotationZ.
ModelRotation(XrotationDegrees, YrotationDegrees, ZrotationDegrees) ==
  MatMul(MatMul(rotationX(XrotationDegrees), rotationY(YrotationDegrees)),
         rotationZ(ZrotationDegrees))

\* The matrix applied to a vector, as the vertex shader applies `model`.
MatVec(M, v) ==
  [i \in 1 .. 3 |-> MulTrig(v[1], M[i][1]) + MulTrig(v[2], M[i][2])
                      + MulTrig(v[3], M[i][3])]

\* The model matrix is translation * rotationX * rotationY * rotationZ * scale;
\* the frame records the nine numbers it is built from.
SetTransformations(scaleXYZ, XrotationDegrees, YrotationDegrees, ZrotationDegrees, positionXYZ) ==
  IF m_pShaderManager # "NULL"
    THEN << Uniform("model",
                    scaleXYZ \o << XrotationDegrees, YrotationDegrees,
                                   ZrotationDegrees >> \o positionXYZ) >>
    ELSE << >>

\* SetShaderColor without the reset of the texture flag.
SetShaderColorKeepsFlag(r, g, b, a) ==
  IF m_pShaderManager # "NULL"
    THEN << Uniform("objectColor", << r, g, b, a >>) >>
    ELSE << >>

SetShaderColor(r, g, b, a) ==
  IF m_pShaderManager # "NULL"
    THEN << Uniform("bUseTexture", << 0 >>),
            Uniform("objectColor", << r, g, b, a >>) >>
    ELSE << >>

\* SetShaderTexture handing the sampler the texture's name, not its unit.
SetShaderTextureByID(textureTag) ==
  IF m_pShaderManager # "NULL"
    THEN << Uniform("bUseTexture", << 1 >>),
            Uniform("objectTexture", << FindTextureID(textureTag) >>) >>
    ELSE << >>

SetShaderTexture(textureTag) ==
  IF m_pShaderManager # "NULL"
    THEN << Uniform("bUseTexture", << 1 >>),
            Uniform("objectTexture", << FindTextureSlot(textureTag) >>) >>
    ELSE << >>

SetTextureUVScale(u, v) ==
  IF m_pShaderManager # "NULL"
    THEN << Uniform("UVscale", << u, v >>) >>
    ELSE << >>

\* `material` is the content of the uninitialised local FindMaterial is given.
SetShaderMaterial(materialTag, material) ==
  IF Len(m_objectMaterials) > 0
    THEN LET found == FindMaterial(materialTag, material)
         IN  IF found.ret
               THEN << Uniform("material.ambientColor", found.material.ambientColor),
                       Uniform("material.ambientStrength",
                               << found.material.ambientStrength >>),
                       Uniform("material.diffuseColor", found.material.diffuseColor),
                       Uniform("material.specularColor", found.material.specularColor),
                       Uniform("material.shininess", << found.material.shininess >>) >>
               ELSE << >>
    ELSE << >>

\* ------------------------------------------------------------ RenderScene
RECURSIVE Flatten(_)
Flatten(seqs) ==
  IF seqs = << >> THEN << >> ELSE Head(seqs) \o Flatten(Tail(seqs))

\* Position arrays that outlive the call (static): every frame rotates what
\* the frame before left in them.
RECURSIVE RotateTimes(_, _, _)
RotateTimes(pos, objRot, n) ==
  IF n = 0 THEN pos
           ELSE RotateTimes(rotate(pos, objRot[1], objRot[2], objRot[3]),
                            objRot, n - 1)

OffsetKept(pos, objRot) == RotateTimes(pos, objRot, frames + 1)

\* "set position, include orientation": rotate() on the elements of the
\* position arrays, which are locals initialised from literals in every call.
Offset(pos, objRot) == rotate(pos, objRot[1], objRot[2], objRot[3])

\* The transform of one shape of an object: the object's position plus the
\* rotated offset, the object's rotation plus the shape's.
PlaceShape(objPos, objRot, size, rot, pos) ==
  LET p == Offset(pos, objRot)
  IN  SetTransformations(size, objRot[1] + rot[1], objRot[2] + rot[2],
                         objRot[3] + rot[3],
                         << objPos[1] + p[1], objPos[2] + p[2], objPos[3] + p[3] >>)

\* The desk plane with the material set right after the transform.
DeskPlaneMaterialEarly(material) ==
  SetTransformations(<< 20000, 1000, 20000 >>, 0, 0, 0, << 0, 0, 0 >>)
    \o SetShaderMaterial("table_material", material)
    \o SetShaderColor(1000, 1000, 1000, 1000)
    \o SetShaderTexture("shadow")
    \o SetTextureUVScale(1100, 1100)
    \o << Draw("Plane") >>

\* The desk plane.
DeskPlane(material) ==
  SetTransformations(<< 20000, 1000, 20000 >>, 0, 0, 0, << 0, 0, 0 >>)
    \o SetShaderColor(1000, 1000, 1000, 1000)
    \o SetShaderTexture("shadow")
    \o SetTextureUVScale(1100, 1100)
    \o SetShaderMaterial("table_material", material)
    \o << Draw("Plane") >>

pencilRot == << 50, 20, 245 >>
pencilPos == << 200, 2800, 5400 >>

xSz1 == << 300, 400, 250, 400, 75 >>
ySz1 == << 400, 600, 11200, 10800, 200 >>
yPos1 == << 0, 400, 1000, 1400, 14800 >>
rgb1 == << 900, 100, 100, 700, 100 >>
a1 == << 900, 900, 900, 500, 900 >>

PencilCylinders ==
  Flatten([i \in 1 .. 5 |->
    PlaceShape(pencilPos, pencilRot, << xSz1[i], ySz1[i], xSz1[i] >>,
               << 0, 0, 0 >>, << 0, yPos1[i], 0 >>)
      \o SetShaderColor(rgb1[i], rgb1[i], rgb1[i], a1[i])
      \o << Draw("Cylinder") >>])

PencilTaper ==
  PlaceShape(pencilPos, pencilRot, << 400, 2200, 400 >>, << 0, 0, 0 >>,
             << 0, 12200, 0 >>)
    \o SetShaderColor(100, 100, 100, 900)
    \o << Draw("TaperedCylinder") >>

xSz3 == << 450, 400 >>
ySz3 == << 900, 3400 >>
zSz3 == << 300, 120 >>
yPos3 == << 2250, 2200 >>
zPos3 == << 400, 600 >>

\* yPos3[i] += ySz3[i] / 2 comes before the rotation.
PencilClipBoxes ==
  Flatten([i \in 1 .. 2 |->
    PlaceShape(pencilPos, pencilRot, << xSz3[i], ySz3[i], zSz3[i] >>,
               << 0, 0, 0 >>, << 0, yPos3[i] + ySz3[i] \div 2, zPos3[i] >>)
      \o SetShaderColor(1000, 400, 100, 900)
      \o << Draw("Box") >>])

PencilClipSphere ==
  PlaceShape(pencilPos, pencilRot, << 200, 200, 100 >>, << 0, 0, 0 >>,
             << 0, 5300, 520 >>)
    \o SetShaderColor(1000, 400, 100, 700)
    \o << Draw("Sphere") >>

PencilPoint ==
  PlaceShape(pencilPos, pencilRot, << 200, 600, 200 >>, << 0, 0, 0 >>,
             << 0, 14400, 0 >>)
    \o SetShaderColor(100, 100, 100, 900)
    \o << Draw("Cone") >>

notebookRot == << 0, 5, 0 >>
notebookPos == << 5500, 0, 0 >>

\* The notebook's box: textured, no material call of its own.
NotebookBox ==
  PlaceShape(notebookPos, notebookRot, << 10000, 2000, 14000 >>, << 0, 0, 0 >>,
             << 0, 0 + 2000 \div 2, 0 >>)
    \o SetShaderColor(1000, 1000, 1000, 1000)
    \o SetShaderTexture("pages")
    \o SetTextureUVScale(1000, 1000)
    \o << Draw("Box") >>

NotebookPage(material) ==
  PlaceShape(notebookPos, notebookRot, << 5000, 1000, 7000 >>, << 0, -1, 0 >>,
             << 100, 2020, 0 >>)
    \o SetShaderColor(1000, 1000, 1000, 1000)
    \o SetShaderTexture("page")
    \o SetTextureUVScale(1000, 1000)
    \o SetShaderMaterial("paper_material", material)
    \o << Draw("Plane") >>

\* zPos8[i] = 13.5 / 17 * (8 - i), rounded to the unit.
RingZ(i) == (2 * 13500 * (8 - i) + RingCount) \div (2 * RingCount)

NotebookRings ==
  Flatten([k \in 1 .. RingCount |->
    PlaceShape(notebookPos, notebookRot, << 250, 250, 250 >>, << 0, 0, 0 >>,
               << -5000, 1000 + 250 \div 2, RingZ(k - 1) >>)
      \o SetShaderColor(700, 700, 700, 900)
      \o << Draw("Torus") >>])

rubiksRot == << 0, 0, 0 >>
rubiksPos == << -5500, 0, 0 >>

xRot9 == << 0, 180, 0, 90 >>
yRot9 == << 0, 0, -90, 180 >>
zRot9 == << -90, 0, 0, 135 >>
xPos9 == << 0, -3000, -3000, -1500 >>
yPos9 == << 0, 0, 0, 3000 >>
zPos9 == << 0, 1500, -1500, 0 >>

RubiksCubes(material) ==
  Flatten([i \in 1 .. 4 |->
    PlaceShape(rubiksPos, rubiksRot, << 3000, 3000, 3000 >>,
               << xRot9[i], yRot9[i], zRot9[i] >>,
               << xPos9[i], yPos9[i] + 3000 \div 2, zPos9[i] >>)
      \o SetShaderColor(1000, 1000, 1000, 1000)
      \o SetShaderTexture("rubiks")
      \o SetTextureUVScale(1000, 1000)
      \o SetShaderMaterial("rubiks_material", material)
      \o << Draw("Box") >>])

\* The whole script, in statement order.
RenderCalls(material) ==
  DeskPlane(material)
    \o SetShaderMaterial("default_material", material)
    \o PencilCylinders
    \o PencilTaper
    \o PencilClipBoxes
    \o PencilClipSphere
    \o PencilPoint
    \o NotebookBox
    \o NotebookPage(material)
    \o SetShaderMaterial("default_material", material)
    \o NotebookRings
    \o RubiksCubes(material)

\* The material names RenderScene passes to SetShaderMaterial.
RenderMaterials ==
  {"table_material", "default_material", "paper_material", "rubiks_material"}

\* The tags of the SetShaderTexture calls of a frame, in call order.
SamplerTags ==
  << "shadow", "pages", "page", "rubiks", "rubiks", "rubiks", "rubiks" >>

\* The texture tags RenderScene looks up.
RenderTags == {"shadow", "pages", "page", "rubiks"}

RenderScene ==
  /\ pc = "idle"
  /\ \E material \in Indeterminate :
     \E outcome \in Outcomes(\E t \in RenderTags : ScanOutOfBounds(t)) :
       IF outcome = "crash"
         THEN /\ pc' = "crashed"
              /\ last' = [op |-> "crash", arg |-> "", ret |-> << >>]
              /\ UNCHANGED << frames, frame1, frameN >>
         ELSE LET calls == RenderCalls(material)
              IN  /\ pc' = pc
                  /\ frames' = IF frames < MaxFrames THEN frames + 1 ELSE frames
                  /\ frame1' = IF frames = 0 THEN calls ELSE frame1
                  /\ frameN' = calls
                  /\ last' = [op |-> "RenderScene", arg |-> "", ret |-> << >>]
  /\ UNCHANGED << files, m_pShaderManager, m_basicMeshes, m_textureIDs, pastEnd,
                  m_loadedTextures, m_objectMaterials, glTextures, glActive,
                  glUnits, uniforms, prepares, registered >>

\* ------------------------------------------------------- rotate on its own
\* rotate is a free function: a caller hands it a position and three angles,
\* and may hand it its own result again (the position is passed by pointer).
\* The position (1, 0, 0) in units of 1/1000000.
UnitX == << Limb * Limb, 0, 0 >>

\* Offsets with whole coordinates, in units of 1/1000, and UnitX.
RotateInputs ==
  {<< a, b, c >> : a, b, c \in {-1000, 0, 2000}} \cup {UnitX}

QuarterTurns == {0, 90, 180, 270}

\* The angle triples: every combination of quarter turns, and the rotations
\* of the scene's objects.
AngleTriples ==
  (QuarterTurns \X QuarterTurns \X QuarterTurns)
    \cup {pencilRot, notebookRot, rubiksRot}

\* A caller has a position and three angles.
InitRotate ==
  /\ Constructed
  /\ files = [f \in SceneFiles |-> 3]
  /\ \E pos \in RotateInputs : \E angles \in AngleTriples :
       last = [op |-> "position",
               arg |-> [pos |-> pos, angles |-> angles, calls |-> 0],
               ret |-> pos]

\* rotate(&xPos, &yPos, &zPos, x, y, z) on the position the caller holds.
CallRotate ==
  /\ last.op \in {"position", "rotate"}
  /\ last.arg.calls < MaxRotations
  /\ last' = [op |-> "rotate",
              arg |-> [last.arg EXCEPT !.calls = @ + 1],
              ret |-> rotate(last.ret, last.arg.angles[1], last.arg.angles[2],
                             last.arg.angles[3])]
  /\ UNCHANGED << pc, files, m_pShaderManager, m_basicMeshes, m_textureIDs,
                  pastEnd, m_loadedTextures, m_objectMaterials, glTextures,
                  glActive, glUnits, uniforms, prepares, frames, frame1, frameN,
                  registered >>

\* ------------------------------------------------------------------- Next
\* The object's life: PrepareScene, step by step, and the destructor.
Lifecycle ==
  \/ PrepareScene
  \/ \E i \in 1 .. 4 : CreateGLTexture(i)
  \/ BindGLTextures
  \/ DefineObjectMaterials
  \/ SetupSceneLights
  \/ LoadMeshes
  \/ Destructor

Lookups ==
  \/ CallFindTextureID
  \/ CallFindTextureSlot
  \/ CallFindMaterial

Next == Lifecycle \/ Lookups \/ RenderScene

Spec == Init /\ [][Next]_vars

\* RenderScene and the lookups read the tables and change none of them, so the
\* tables a client can produce are those of the life cycle alone.  The claims
\* about the tables and the lookups are checked with the client that renders
\* no frame, the claims about frames with the client that calls no lookup of
\* its own.
NextTables == Lifecycle \/ Lookups

SpecTables == Init /\ [][NextTables]_vars

NextFrames == Lifecycle \/ RenderScene

SpecFrames == Init /\ [][NextFrames]_vars

\* rotate reads and writes nothing of the object: the claims about it are
\* checked with the caller that only calls rotate.
SpecRotate == InitRotate /\ [][CallRotate]_vars

\* ============================================================ properties
\* The indices below the counter whose element carries the tag.
TextureMatches(tag) ==
  {i \in 0 .. (m_loadedTextures - 1) : Element(i).tag = tag}

\* The indices of the materials that carry the tag.
MaterialMatches(tag) ==
  {i \in 1 .. Len(m_objectMaterials) : m_objectMaterials[i].tag = tag}

\* The tables as the program sees them.
Tables == << m_textureIDs, pastEnd, m_loadedTextures >>

\* C1: FindMaterial returns false whenever no entry of the material list has
\* the requested name, whatever the list holds (also a non-empty list).
C1_FindMaterialFailsOnAbsentName ==
  (last.op = "FindMaterial" /\ MaterialMatches(last.arg) = {})
    => last.ret.ret = FALSE

\* C2: the number of registered textures never exceeds the capacity of 16 and
\* nothing is written at an index outside 0..15.
C2_TextureTableWithinCapacity ==
  /\ m_loadedTextures <= TextureCapacity
  /\ pastEnd = << >>

\* C3: a lookup of a name that is registered returns the first-inserted entry:
\* FindTextureID the handle and FindTextureSlot the index of the lowest-index
\* element with the tag, FindMaterial the fields of the lowest-index material
\* with the tag.
C3_LookupReturnsFirstInserted ==
  /\ (last.op = "FindTextureID" /\ TextureMatches(last.arg) # {})
       => last.ret = Element(Min(TextureMatches(last.arg))).ID
  /\ (last.op = "FindTextureSlot" /\ TextureMatches(last.arg) # {})
       => last.ret = Min(TextureMatches(last.arg))
  /\ (last.op = "FindMaterial" /\ MaterialMatches(last.arg) # {})
       => /\ last.ret.ret = TRUE
          /\ last.ret.material =
               Fields(m_objectMaterials[Min(MaterialMatches(last.arg))])

\* C3 happens: a tag registered twice, with different handles, was looked up
\* by FindTextureID.
C3_Witness ==
  /\ last.op = "FindTextureID"
  /\ \E i, j \in TextureMatches(last.arg) :
       i < j /\ Element(i).ID # Element(j).ID

\* C4: for a tag that none of the first m_loadedTextures elements carries,
\* FindTextureID and FindTextureSlot return -1, and neither changes the table.
C4_AbsentTagGivesMinusOne ==
  [][ last'.op \in {"FindTextureID", "FindTextureSlot"}
        => /\ Tables' = Tables
           /\ TextureMatches(last'.arg) = {} => last'.ret = -1 ]_vars

\* C4 happens: the placeholder tag was looked up in a table that holds
\* textures and placeholders.
C4_Witness ==
  /\ last.op = "FindTextureSlot"
  /\ last.arg = PlaceholderTag
  /\ m_loadedTextures > 0
  /\ m_loadedTextures < TextureCapacity
  /\ last.ret = -1

\* The position in LoadSceneTextures a pc stands for.
LoadIndex(p) == CHOOSE i \in 1 .. 4 : LoadPc[i] = p

\* C5: a CreateGLTexture call whose image does not load, or has a channel
\* count other than 3 and 4, returns false, and a call that returns false
\* leaves the counter and every element as they were.
C5_FailedLoadLeavesTable ==
  [][ last'.op = "CreateGLTexture"
        => /\ ~(files[SceneTextures[LoadIndex(pc)].file] \in {3, 4})
                => last'.ret = FALSE
           /\ last'.ret = FALSE => Tables' = Tables ]_vars

\* C5 happens: a call failed on the channel count with textures in the table.
C5_Witness ==
  /\ last.op = "CreateGLTexture"
  /\ last.ret = FALSE
  /\ \E i \in 1 .. 4 : /\ SceneTextures[i].tag = last.arg
                       /\ files[SceneTextures[i].file] = 1
  /\ m_loadedTextures > 0

\* C6: after the destructor no texture that CreateGLTexture created and
\* registered is still allocated.
C6_TeardownReleasesTextures ==
  pc = "destroyed" => registered \cap glTextures = {}

\* ------------------------------------------------------ frame properties
\* The positions of the draw calls in a frame.
DrawIndices(frame) == {i \in DOMAIN frame : frame[i].call = "draw"}

\* The position of the draw call before position j (0: none).
PrevDraw(frame, j) ==
  LET earlier == {i \in DrawIndices(frame) : i < j}
  IN  IF earlier = {} THEN 0
      ELSE CHOOSE i \in earlier : \A k \in earlier : k <= i

\* The meshes drawn, in order.
IsDraw(c) == c.call = "draw"

DrawsOf(frame) ==
  LET draws == SelectSeq(frame, IsDraw)
  IN  [k \in 1 .. Len(draws) |-> draws[k].name]

MaterialUniforms ==
  {"material.ambientColor", "material.ambientStrength", "material.diffuseColor",
   "material.specularColor", "material.shininess"}

\* The per-draw order: 1 transform, 2 colour and texture, 3 material, 4 draw.
Rank(c) ==
  IF c.call = "draw" THEN 4
  ELSE IF c.name = "model" THEN 1
  ELSE IF c.name \in MaterialUniforms THEN 3
  ELSE 2

\* From position a to position b the ranks never go down.
InOrder(frame, a, b) ==
  \A i, k \in a .. b : i < k => Rank(frame[i]) <= Rank(frame[k])

\* The length of the run of material assignments that starts at position a.
RECURSIVE MaterialRun(_, _)
MaterialRun(frame, a) ==
  IF a <= Len(frame) /\ Rank(frame[a]) = 3
    THEN 1 + MaterialRun(frame, a + 1)
    ELSE 0

\* C7: for every draw call of RenderScene, the calls since the previous draw
\* call come in the order transform, colour/texture, material, draw; no
\* material assignment comes before the transform of the draw.
C7_TransformColourMaterialDraw ==
  frames > 0
    => \A j \in DrawIndices(frameN) :
         /\ Rank(frameN[PrevDraw(frameN, j) + 1]) = 1
         /\ InOrder(frameN, PrevDraw(frameN, j) + 1, j)

\* C7 as amended: the calls since the previous draw call are one transform
\* assignment, then the colour/texture assignments, then the material
\* assignment (if the shape sets one), then the draw; except that the
\* default_material assignment for the pencil and for the rings is made right
\* after the draw of the desk plane and of the notebook page, before the
\* transform of the first cylinder and of the first ring.
C7_OrderWithMaterialReset ==
  frames > 0
    => \A j \in DrawIndices(frameN) :
         LET first == PrevDraw(frameN, j) + 1
             reset == MaterialRun(frameN, first)
         IN  /\ Rank(frameN[first + reset]) = 1
             /\ \A i \in (first + reset + 1) .. j : Rank(frameN[i]) # 1
             /\ InOrder(frameN, first + reset, j)
             /\ reset > 0
                  => /\ frameN[j].name \in {"Cylinder", "Torus"}
                     /\ frameN[first - 1].name = "Plane"
                     /\ reset = 5
                     /\ frameN[first + 1].value = << defaultMaterial.ambientStrength >>

\* C7 happens: a frame was rendered with the materials defined, so that the
\* material assignments are in the frame.
C7_Witness ==
  /\ frames > 0
  /\ Len(m_objectMaterials) > 0
  /\ \E i \in DOMAIN frameN : Rank(frameN[i]) = 3

\* The draw calls of a frame, from the script: the desk plane, the pencil
\* (5 cylinders, tapered cylinder, 2 boxes, sphere, cone), the notebook (box,
\* page, 17 rings), 4 cubes.
ExpectedDraws ==
  << "Plane" >>
    \o [i \in 1 .. 5 |-> "Cylinder"]
    \o << "TaperedCylinder", "Box", "Box", "Sphere", "Cone", "Box", "Plane" >>
    \o [i \in 1 .. 17 |-> "Torus"]
    \o [i \in 1 .. 4 |-> "Box"]

\* C8: whichever of the four texture loads fail, PrepareScene and RenderScene
\* run to their end and the frame has the draw calls of a frame with every
\* texture loaded, in the same order.  (The only runs that stop are those of
\* a write or read behind the full texture table.)
C8_LoadFailureKeepsFrame ==
  /\ frames > 0 => DrawsOf(frameN) = ExpectedDraws
  /\ pc = "crashed" => m_loadedTextures >= TextureCapacity

\* C8 happens: a frame was rendered after one PrepareScene in which one image
\* was missing, one had an unsupported channel count and one loaded.
C8_Witness ==
  /\ frames > 0
  /\ prepares = 1
  /\ last.op = "RenderScene"
  /\ \E f, g, h \in SceneFiles :
       files[f] = 0 /\ files[g] = 1 /\ files[h] \in {3, 4}

\* The number of draw calls of a mesh in a frame.
DrawCount(frame, mesh) ==
  Cardinality({i \in DrawIndices(frame) : frame[i].name = mesh})

\* C9: every frame rendered after PrepareScene is the same sequence of uniform
\* assignments and draw calls as the first one, and has 34 draw calls: 2
\* plane, 5 cylinder, 1 tapered cylinder, 7 box, 1 sphere, 1 cone, 17 torus.
C9_FramesRepeat ==
  frames > 0
    => /\ frameN = frame1
       /\ Cardinality(DrawIndices(frameN)) = 34
       /\ DrawCount(frameN, "Plane") = 2
       /\ DrawCount(frameN, "Cylinder") = 5
       /\ DrawCount(frameN, "TaperedCylinder") = 1
       /\ DrawCount(frameN, "Box") = 7
       /\ DrawCount(frameN, "Sphere") = 1
       /\ DrawCount(frameN, "Cone") = 1
       /\ DrawCount(frameN, "Torus") = 17

\* C9 happens: a second frame was rendered after a PrepareScene.
C9_Witness ==
  /\ prepares > 0
  /\ frames >= 2
  /\ last.op = "RenderScene"

\* C10: between construction and teardown the texture table and the material
\* list only grow at the end: no step but the destructor's lowers a count or
\* changes an entry already registered.
C10_TablesAppendOnly ==
  [][ pc' # "destroyed"
        => /\ m_loadedTextures' >= m_loadedTextures
           /\ \A i \in 0 .. (m_loadedTextures - 1) : Element(i)' = Element(i)
           /\ Len(m_objectMaterials') >= Len(m_objectMaterials)
           /\ \A i \in 1 .. Len(m_objectMaterials) :
                m_objectMaterials'[i] = m_objectMaterials[i] ]_vars

\* C10 happens: a second PrepareScene has appended to both tables.
C10_Witness ==
  /\ pc = "idle"
  /\ prepares >= 2
  /\ m_loadedTextures >= 2
  /\ Len(m_objectMaterials) >= 10

\* ----------------------------------------------------- rotate properties
Abs(n) == IF n < 0 THEN -n ELSE n

\* The largest coordinate of a vector, in absolute value.
MaxAbs(v) ==
  IF Abs(v[1]) >= Abs(v[2]) /\ Abs(v[1]) >= Abs(v[3]) THEN Abs(v[1])
  ELSE IF Abs(v[2]) >= Abs(v[3]) THEN Abs(v[2])
  ELSE Abs(v[3])

\* Every coordinate of u is within tol of the coordinate of v.
Near(u, v, tol) == \A i \in 1 .. 3 : Abs(u[i] - v[i]) <= tol

\* What single precision leaves open: 10 millionths of the position's largest
\* coordinate, in the position's unit.  It is 0 for the offsets in units of
\* 1/1000 (the results are then equal) and 10 for UnitX.
Tolerance(pos) == (10 * MaxAbs(pos)) \div (Limb * Limb)

\* A quarter-turn rotation of the pair (h, v), anticlockwise, exact.
PlaneTurn(h, v, deg) ==
  CASE deg = 0   -> << h, v >>
    [] deg = 90  -> << -v, h >>
    [] deg = 180 -> << -h, -v >>
    [] deg = 270 -> << v, -h >>

\* Z on the pair (x, y), then Y by the negated angle on the pair (x, z), then
\* X on the pair (y, z), each on the coordinates the one before left.
TurnZYX(pos, x, y, z) ==
  LET onZ == PlaneTurn(pos[1], pos[2], z)
      onY == PlaneTurn(onZ[1], pos[3], (360 - y) % 360)
      onX == PlaneTurn(onZ[2], onY[2], x)
  IN  << onY[1], onX[1], onX[2] >>

\* The first call of rotate on a position has returned.
Rotated == last.op = "rotate" /\ last.arg.calls = 1

QuarterTriple(angles) == \A i \in 1 .. 3 : angles[i] \in QuarterTurns

\* C11: rotate applies three planar rotations, Z first on the pair (x, y),
\* then Y with the angle negated on the pair (x, z), then X on the pair
\* (y, z), each on the coordinates the earlier ones left: for quarter turns
\* the result is that of the three exact quarter-turn maps in this order (to
\* single precision), and for every angle triple it is the result of rotating
\* by z alone, then by y alone, then by x alone.
C11_RotateOrderZYX ==
  Rotated =>
    LET pos == last.arg.pos
        x   == last.arg.angles[1]
        y   == last.arg.angles[2]
        z   == last.arg.angles[3]
    IN  /\ QuarterTriple(last.arg.angles)
             => Near(last.ret, TurnZYX(pos, x, y, z), Tolerance(pos))
        /\ last.ret = rotate(rotate(rotate(pos, 0, 0, z), 0, y, 0), x, 0, 0)

\* C11 happens: a rotation by quarter turns about all three axes, of a
\* position with three different coordinates, for which the order matters.
C11_Witness ==
  /\ Rotated
  /\ last.arg.pos = << -1000, 0, 2000 >>
  /\ last.arg.angles = << 90, 90, 90 >>
  /\ last.ret = << 2000, 0, -1000 >>

\* C12: with the three angles zero rotate returns the position it was given,
\* for every position and however often it is applied.
C12_ZeroAnglesIdentity ==
  (last.op = "rotate" /\ last.arg.angles = << 0, 0, 0 >>)
    => last.ret = last.arg.pos

\* C12 happens: rotate was applied twice with zero angles to a position with
\* three different coordinates.
C12_Witness ==
  /\ last.op = "rotate"
  /\ last.arg.angles = << 0, 0, 0 >>
  /\ last.arg.calls >= 2
  /\ last.arg.pos = << -1000, 0, 2000 >>

\* The case of C13: rotate(0, 0, 90) on the position (1, 0, 0).
QuarterTurnOfUnitX ==
  /\ Rotated
  /\ last.arg.pos = UnitX
  /\ last.arg.angles = << 0, 0, 90 >>

\* C13: rotate with the angles (x = 0, y = 0, z = 90) on the position
\* (1, 0, 0) yields (0, 1, 0).
C13_QuarterTurnExact ==
  QuarterTurnOfUnitX => last.ret = << 0, UnitX[1], 0 >>

\* C13 as amended: the result is (c, 1, 0) with c the single-precision cosine
\* of 90 * 3.14159 / 180, about 1.3e-6: within 2e-6 of (0, 1, 0) in every
\* coordinate, and not (0, 1, 0).
C13_QuarterTurnNear ==
  QuarterTurnOfUnitX
    => /\ Near(last.ret, << 0, UnitX[1], 0 >>, 2)
       /\ last.ret[1] > 0
       /\ last.ret[3] = 0

\* C13 happens.
C13_Witness == QuarterTurnOfUnitX /\ last.ret[2] = UnitX[1]

\* C14: the displacement rotate gives an offset is the rotation
\* SetTransformations gives the mesh for the same angles, rotationX *
\* rotationY * rotationZ: for every triple of quarter turns and every offset
\* the two agree to single precision, exactly so in the scene's unit.
C14_RotateIsModelRotation ==
  (Rotated /\ QuarterTriple(last.arg.angles))
    => Near(last.ret,
            MatVec(ModelRotation(last.arg.angles[1], last.arg.angles[2],
                                 last.arg.angles[3]), last.arg.pos),
            Tolerance(last.arg.pos))

\* C14 happens: a quarter turn about y, the axis whose angle rotate negates,
\* of an offset that the turn moves.
C14_Witness ==
  /\ Rotated
  /\ last.arg.angles = << 0, 90, 0 >>
  /\ last.arg.pos = << -1000, 0, 2000 >>
  /\ last.ret = << 2000, 0, 1000 >>

\* ---------------------------------------------------- texture properties
\* The handles in the elements below the counter.
TableIDs == {Element(i).ID : i \in 0 .. (m_loadedTextures - 1)}

\* C15: after every CreateGLTexture call, successful or not, the texture
\* names generated so far are the IDs of the elements below the counter, and
\* the call leaves no texture bound to GL_TEXTURE_2D: the binding of the
\* active unit is none, or the call has not touched the bindings.
C15_GeneratedHandlesRegistered ==
  [][ last'.op = "CreateGLTexture"
        => /\ glTextures' = TableIDs'
           /\ glUnits'[glActive'] = 0 \/ glUnits' = glUnits ]_vars

\* The image file of a tag.
FileOf(tag) ==
  SceneTextures[CHOOSE i \in DOMAIN SceneTextures : SceneTextures[i].tag = tag].file

\* PrepareScene has run and the tag's image is one CreateGLTexture uploads.
Loads(tag) == prepares > 0 /\ files[FileOf(tag)] \in {3, 4}

\* The values the sampler uniform got in a frame, in call order.
IsSampler(c) == c.call = "uniform" /\ c.name = "objectTexture"

Samplers(frame) ==
  LET calls == SelectSeq(frame, IsSampler)
  IN  [k \in 1 .. Len(calls) |-> calls[k].value[1]]

\* C16: whichever loads succeed, the sampler index SetShaderTexture assigns
\* for a tag that loaded is the texture unit on which BindGLTextures bound a
\* handle registered under that tag, and for a tag that did not load it is -1.
C16_SamplerIsBoundUnit ==
  last.op = "RenderScene"
    => /\ Len(Samplers(frameN)) = Len(SamplerTags)
       /\ \A k \in DOMAIN SamplerTags :
            LET unit == Samplers(frameN)[k]
                tag  == SamplerTags[k]
            IN  IF Loads(tag)
                  THEN /\ unit >= 0
                       /\ Element(unit).tag = tag
                       /\ glUnits[unit] = Element(unit).ID
                       /\ glUnits[unit] \in registered
                  ELSE unit = -1

\* C16 happens: after one PrepareScene in which the first load failed on the
\* channel count, a later one succeeded and the last one failed, a frame was
\* rendered.
C16_Witness ==
  /\ last.op = "RenderScene"
  /\ prepares = 1
  /\ files[FileOf("pages")] = 1
  /\ Loads("page")
  /\ Loads("rubiks")
  /\ files[FileOf("shadow")] = 0

\* The texture flag and the draw calls of a frame, in call order.
IsFlagOrDraw(c) == c.call = "draw" \/ c.name = "bUseTexture"

\* The value of the texture flag at position i of such a sequence: that of
\* the latest assignment before it (-1: none).
RECURSIVE FlagAt(_, _)
FlagAt(calls, i) ==
  IF i = 0 THEN -1
  ELSE IF calls[i].call = "uniform" THEN calls[i].value[1]
  ELSE FlagAt(calls, i - 1)

\* The value of bUseTexture at each draw call of a frame.
FlagsAtDraws(frame) ==
  LET calls == SelectSeq(frame, IsFlagOrDraw)
      draws == SelectSeq([i \in 1 .. Len(calls) |-> i],
                         LAMBDA i : calls[i].call = "draw")
  IN  [k \in 1 .. Len(draws) |-> FlagAt(calls, draws[k])]

\* The flag of the 34 draws: the desk plane, 10 pencil parts, the notebook's
\* box and page, 17 rings, 4 cubes.
ExpectedFlags ==
  << 1 >> \o [i \in 1 .. 10 |-> 0] \o << 1, 1 >> \o [i \in 1 .. RingCount |-> 0]
    \o [i \in 1 .. 4 |-> 1]

\* C17: at each draw call of RenderScene, in the first frame and in every
\* later one, bUseTexture is true for the 7 textured draws and false for the
\* 27 colour-only draws.
C17_TextureFlagPerDraw ==
  frames > 0
    => /\ FlagsAtDraws(frame1) = ExpectedFlags
       /\ FlagsAtDraws(frameN) = ExpectedFlags

\* C17 happens: a second frame was rendered, after the textured cubes that end
\* the first one.
C17_Witness ==
  /\ last.op = "RenderScene"
  /\ frames >= 2
  /\ Len(DrawsOf(frameN)) = Len(ExpectedFlags)

\* Every image is one CreateGLTexture uploads.
EveryImageLoads == \A f \in SceneFiles : files[f] \in {3, 4}

\* C18: after one PrepareScene in which every image loads, every name
\* RenderScene uses is resolved: each texture tag is in the table, with its
\* handle bound on the unit of its element; each material name is in the
\* material list; each mesh drawn is loaded.  The frame shows it: no sampler
\* is -1.
C18_NamesResolved ==
  (last.op = "RenderScene" /\ prepares = 1 /\ EveryImageLoads)
    => /\ \A tag \in RenderTags :
            /\ TextureMatches(tag) # {}
            /\ LET unit == Min(TextureMatches(tag))
               IN  /\ glUnits[unit] = Element(unit).ID
                   /\ glUnits[unit] \in glTextures
       /\ \A k \in DOMAIN SamplerTags :
            /\ SamplerTags[k] \in RenderTags
            /\ Samplers(frameN)[k] >= 0
       /\ \A name \in RenderMaterials : MaterialMatches(name) # {}
       /\ \A k \in DOMAIN DrawsOf(frameN) : DrawsOf(frameN)[k] \in m_basicMeshes

\* C18 happens: the first frame after the one PrepareScene, every image loaded.
C18_Witness ==
  /\ last.op = "RenderScene"
  /\ prepares = 1
  /\ EveryImageLoads
  /\ m_loadedTextures = 4
  /\ Len(DrawsOf(frameN)) = 34

====
